---- MODULE Spec2Model ----
(***************************************************************************)
(* Model of cost_uploader.py: the Criteo (Source A) and Kelkoo (Source B)  *)
(* pipelines, merge_dataframes and the Google-sheet sink, as run by        *)
(* sheet_upload().                                                         *)
(*                                                                         *)
(* Data representation.  A dataframe row is a record whose domain is the   *)
(* set of columns holding a value; a column missing from the domain is a   *)
(* NaN cell.  Money is fixed-point: costs are integer cents, the FX rate   *)
(* is an integer number of hundredths, so cost * rate is in 1/100 cent.    *)
(***************************************************************************)
EXTENDS Integers, Sequences, FiniteSets, TLC

VARIABLES
    pc,          \* position of the run inside sheet_upload
    error,       \* the fatal error that ended the run, "none" otherwise
    exit_code,   \* <<>> while running, <<status>> once the process exited
    printed,     \* messages written to stdout / stderr, in order
    stats_usd,   \* raw USD report lines (local of criteo_build_final_dataframe)
    stats_gbp,   \* raw GBP report lines
    stats_eur,   \* raw EUR report lines
    df_merged,   \* the three-way join after coalescing (local of the normalizer)
    criteo_df,   \* result of criteo_build_final_dataframe
    usd_rate,    \* FX rate in hundredths, <<>> before it is fetched
    response,    \* the Kelkoo HTTP response
    kelkoo_df,   \* result of kelkoo_build_final_dataframe
    merged_df,   \* result of merge_dataframes
    sheet        \* calls received by the worksheet, in order

vars == <<pc, error, exit_code, printed, stats_usd, stats_gbp, stats_eur,
          df_merged, criteo_df, usd_rate, response, kelkoo_df, merged_df, sheet>>

\* Largest number of lines in one API report.
MaxRows == 2

(***************************************************************************)
(* Generic dataframe helpers                                               *)
(***************************************************************************)

\* Python's ordering of the strings that are ever sorted or max()-ed.
StrOrder ==
    << "2024-01-01", "2024-01-02", "Acme GB", "Acme UK", "Affiliate", "CTV",
       "Computer", "Criteo", "Desktop", "EUR", "GBP", "Kelkoo", "Mobile",
       "Other", "Retargeting", "Smartphone", "Tablet", "UK", "USD", "Unknown",
       "Watch", "desktop", "mobile", "tablet", "unknown" >>

Rank(s) == CHOOSE i \in 1..Len(StrOrder) : StrOrder[i] = s

\* Lexicographic order on equal-length tuples of strings.
TupleLess(a, b) ==
    \E i \in 1..Len(a) :
        /\ Rank(a[i]) < Rank(b[i])
        /\ \A j \in 1..(i - 1) : a[j] = b[j]

RECURSIVE SortedSeq(_)
SortedSeq(S) ==
    IF S = {} THEN <<>>
    ELSE LET m == CHOOSE k \in S : \A j \in S : j = k \/ TupleLess(k, j)
         IN  <<m>> \o SortedSeq(S \ {m})

\* A cell as an option: <<>> is NaN, <<v>> a value.
Cell(r, c) == IF c \in DOMAIN r THEN <<r[c]>> ELSE <<>>

Fillna(a, b) == IF a = <<>> THEN b ELSE a

Drop(r, cs) == [c \in DOMAIN r \ cs |-> r[c]]

SetCell(r, c, o) ==
    IF o = <<>> THEN Drop(r, {c}) ELSE [x \in {c} |-> o[1]] @@ r

Rename(r, cols) ==
    LET new(k) == IF k \in DOMAIN cols THEN cols[k] ELSE k
    IN  [c \in {new(k) : k \in DOMAIN r} |->
            r[CHOOSE k \in DOMAIN r : new(k) = c]]

Project(r, cs) == [c \in DOMAIN r \cap cs |-> r[c]]

Range(s) == {s[i] : i \in 1..Len(s)}

\* Series.replace(dict): one simultaneous substitution, other values kept.
Replace(v, mapping) == IF v \in DOMAIN mapping THEN mapping[v] ELSE v

\* 'sum' aggregation: NaN cells are skipped, an all-NaN group sums to 0.
RECURSIVE SumCol(_, _)
SumCol(rows, c) ==
    IF rows = <<>> THEN 0
    ELSE (IF c \in DOMAIN Head(rows) THEN Head(rows)[c] ELSE 0)
         + SumCol(Tail(rows), c)

\* 'max' aggregation over a string column: NaN cells are skipped.
MaxCol(rows, c) ==
    LET vals == {rows[i][c] : i \in {j \in 1..Len(rows) : c \in DOMAIN rows[j]}}
    IN  IF vals = {} THEN <<>>
        ELSE <<CHOOSE v \in vals : \A w \in vals : Rank(w) <= Rank(v)>>

\* DataFrame.round(decimals=2) of a value held in units of 1/scale cent
\* (numpy rounds half to even).
Round2(x, scale) ==
    LET q == x \div scale
        rem == x % scale
    IN  IF 2 * rem > scale THEN q + 1
        ELSE IF 2 * rem < scale THEN q
        ELSE IF q % 2 = 0 THEN q ELSE q + 1

\* The rows of a report: the lines of `universe` picked by index set I.
Pick(universe, I) ==
    LET F[n \in 0..Len(universe)] ==
            IF n = 0 THEN <<>>
            ELSE IF n \in I THEN Append(F[n - 1], universe[n]) ELSE F[n - 1]
    IN  F[Len(universe)]

Reports(universe) ==
    {Pick(universe, I) :
        I \in {J \in SUBSET (1..Len(universe)) : Cardinality(J) <= MaxRows}}

None == [kind |-> "None", columns |-> <<>>, rows |-> <<>>]
Unset == [kind |-> "unset", columns |-> <<>>, rows |-> <<>>]
DataFrame(cols, rows) == [kind |-> "df", columns |-> cols, rows |-> rows]

(***************************************************************************)
(* Source A (Criteo)                                                       *)
(***************************************************************************)

\* settings.CRITEO_MARKET_REPLACEMENTS: advertiser name -> major market.
CRITEO_MARKET_REPLACEMENTS ==
    [a \in {"Acme UK", "Acme GB"} |-> "UK"]

\* Lines the USD report can hold (all metrics, no advertiser filter).  Two
\* advertiser accounts carry the same name; one line has no device.
UsdLines ==
    << [AdvertiserId |-> 1, Advertiser |-> "Acme UK", Day |-> "2024-01-01",
        Device |-> "Desktop", Currency |-> "USD", Displays |-> 100,
        Clicks |-> 5, AdvertiserCost |-> 1000],
       [AdvertiserId |-> 2, Advertiser |-> "Acme UK", Day |-> "2024-01-01",
        Device |-> "Desktop", Currency |-> "USD", Displays |-> 40,
        Clicks |-> 2, AdvertiserCost |-> 300],
       [AdvertiserId |-> 1, Advertiser |-> "Acme UK", Day |-> "2024-01-01",
        Device |-> "CTV", Currency |-> "USD", Displays |-> 8,
        Clicks |-> 1, AdvertiserCost |-> 50],
       [AdvertiserId |-> 1, Advertiser |-> "Acme UK", Day |-> "2024-01-01",
        Device |-> "Other", Currency |-> "USD", Displays |-> 4,
        Clicks |-> 1, AdvertiserCost |-> 25],
       [AdvertiserId |-> 1, Advertiser |-> "Acme UK", Day |-> "2024-01-02",
        Device |-> "Mobile", Currency |-> "USD", Displays |-> 20,
        Clicks |-> 4, AdvertiserCost |-> 75],
       [AdvertiserId |-> 1, Advertiser |-> "Acme UK", Day |-> "2024-01-01",
        Currency |-> "USD", Displays |-> 9, Clicks |-> 9,
        AdvertiserCost |-> 9] >>

\* Lines the GBP report can hold (cost only).
GbpLines ==
    << [AdvertiserId |-> 1, Advertiser |-> "Acme UK", Day |-> "2024-01-01",
        Device |-> "Desktop", Currency |-> "GBP", AdvertiserCost |-> 800],
       [AdvertiserId |-> 2, Advertiser |-> "Acme UK", Day |-> "2024-01-01",
        Device |-> "Desktop", Currency |-> "GBP", AdvertiserCost |-> 250],
       [AdvertiserId |-> 1, Advertiser |-> "Acme UK", Day |-> "2024-01-01",
        Device |-> "Tablet", Currency |-> "GBP", AdvertiserCost |-> 60],
       [AdvertiserId |-> 1, Advertiser |-> "Acme UK", Day |-> "2024-01-01",
        Device |-> "CTV", Currency |-> "GBP", AdvertiserCost |-> 40] >>

\* Lines the EUR report can hold (cost only).
EurLines ==
    << [AdvertiserId |-> 1, Advertiser |-> "Acme UK", Day |-> "2024-01-01",
        Device |-> "Desktop", Currency |-> "EUR", AdvertiserCost |-> 900],
       [AdvertiserId |-> 3, Advertiser |-> "Acme GB", Day |-> "2024-01-01",
        Device |-> "Desktop", Currency |-> "EUR", AdvertiserCost |-> 180],
       [AdvertiserId |-> 3, Advertiser |-> "Acme GB", Day |-> "2024-01-02",
        Device |-> "Smartphone", Currency |-> "EUR", AdvertiserCost |-> 70] >>

columns_usd == [AdvertiserCost |-> "costusd", Currency |-> "billingcurrency"]
columns_eur ==
    [AdvertiserCost |-> "billingcost_eur", Currency |-> "billingcurrency_eur"]
columns_gbp ==
    [AdvertiserCost |-> "billingcost_gbp", Currency |-> "billingcurrency_gbp"]

\* __criteo_create_dataframes: drop AdvertiserId, keep lines with a device,
\* rename the cost and currency columns.
CriteoCreateDataframes(stats, cols) ==
    LET dropped == [i \in 1..Len(stats) |-> Drop(stats[i], {"AdvertiserId"})]
        kept == SelectSeq(dropped, LAMBDA r : "Device" \in DOMAIN r)
    IN  [i \in 1..Len(kept) |-> Rename(kept[i], cols)]

JoinKey(r) == <<r.Advertiser, r.Day, r.Device>>

\* pd.merge(left, right, on=[Advertiser, Day, Device], how='outer'): keys in
\* sorted order; a key on both sides yields every left/right pairing.
OuterMerge(left, right) ==
    LET keys == {JoinKey(left[i]) : i \in 1..Len(left)}
                \cup {JoinKey(right[i]) : i \in 1..Len(right)}
        ks == SortedSeq(keys)
        RowsFor(k) ==
            LET ls == SelectSeq(left, LAMBDA r : JoinKey(r) = k)
                rs == SelectSeq(right, LAMBDA r : JoinKey(r) = k)
            IN  IF rs = <<>> THEN ls
                ELSE IF ls = <<>> THEN rs
                ELSE [n \in 1..(Len(ls) * Len(rs)) |->
                        ls[((n - 1) \div Len(rs)) + 1]
                        @@ rs[((n - 1) % Len(rs)) + 1]]
        F[n \in 0..Len(ks)] ==
            IF n = 0 THEN <<>> ELSE F[n - 1] \o RowsFor(ks[n])
    IN  F[Len(ks)]

\* billingcurrency / billingcost of one joined row: GBP, else EUR, else USD.
CoalesceCurrency(r) ==
    Fillna(Fillna(Cell(r, "billingcurrency_gbp"),
                  Cell(r, "billingcurrency_eur")),
           Cell(r, "billingcurrency"))

\* The cost coalesced with EUR ahead of GBP.
CoalesceCostMut(r) ==
    Fillna(Fillna(Cell(r, "billingcost_eur"), Cell(r, "billingcost_gbp")),
           Cell(r, "costusd"))

CoalesceCost(r) ==
    Fillna(Fillna(Cell(r, "billingcost_gbp"), Cell(r, "billingcost_eur")),
           Cell(r, "costusd"))

\* The three-way join with the coalesced columns assigned.
CriteoJoin(df_usd, df_eur, df_gbp) ==
    LET joined == OuterMerge(OuterMerge(df_usd, df_eur), df_gbp)
    IN  [i \in 1..Len(joined) |->
            SetCell(SetCell(joined[i], "billingcurrency",
                            CoalesceCurrency(joined[i])),
                    "billingcost", CoalesceCost(joined[i]))]

CriteoDeviceMap ==
    [Desktop |-> "desktop", Tablet |-> "tablet", CTV |-> "unknown",
     Other |-> "unknown", Smartphone |-> "mobile", Unknown |-> "unknown"]

\* Engine and channel stamps, canonical column names, market and device
\* taxonomy of one joined row.
CriteoFormatRow(r) ==
    LET stamped == [engine |-> "Criteo", channel |-> "Retargeting"] @@ r
        renamed == Rename(stamped,
                          [Day |-> "date", Device |-> "device",
                           Displays |-> "impressions", Clicks |-> "clicks",
                           Advertiser |-> "majormarket"])
        market == [renamed EXCEPT !.majormarket =
                      Replace(@, CRITEO_MARKET_REPLACEMENTS)]
    IN  [market EXCEPT !.device = Replace(@, CriteoDeviceMap)]

\* Grouping with the billing currency as a fifth key column.
CriteoGroupKeyMut(r) ==
    <<r.date, r.device, r.majormarket, r.channel, r.billingcurrency>>

CriteoGroupKey(r) == <<r.date, r.device, r.majormarket, r.channel>>

\* groupby([date, device, majormarket, channel], as_index=False).agg(...)
CriteoGroupBy(rows) ==
    LET ks == SortedSeq({CriteoGroupKey(rows[i]) : i \in 1..Len(rows)})
        Agg(k) ==
            LET g == SelectSeq(rows, LAMBDA r : CriteoGroupKey(r) = k)
            IN  SetCell(
                    SetCell(
                        [date |-> k[1], device |-> k[2], majormarket |-> k[3],
                         channel |-> k[4],
                         impressions |-> SumCol(g, "impressions"),
                         clicks |-> SumCol(g, "clicks"),
                         billingcost |-> SumCol(g, "billingcost"),
                         costusd |-> SumCol(g, "costusd")],
                        "billingcurrency", MaxCol(g, "billingcurrency")),
                    "engine", MaxCol(g, "engine"))
    IN  [n \in 1..Len(ks) |-> Agg(ks[n])]

CanonicalColumns ==
    << "date", "device", "impressions", "clicks", "billingcost",
       "billingcurrency", "costusd", "engine", "majormarket", "channel" >>

\* Column selection and rounding of the cost columns (already whole cents).
CriteoSelect(rows) ==
    [i \in 1..Len(rows) |->
        [Project(rows[i], Range(CanonicalColumns)) EXCEPT
            !.billingcost = Round2(@, 1), !.costusd = Round2(@, 1)]]

\* __criteo_merge_and_format_dataframes, given the coalesced join.
CriteoFormat(joined) ==
    IF SelectSeq(joined, LAMBDA r : "Advertiser" \in DOMAIN r) = <<>>
    THEN None
    ELSE DataFrame(CanonicalColumns,
                   CriteoSelect(CriteoGroupBy(
                       [i \in 1..Len(joined) |-> CriteoFormatRow(joined[i])])))

\* Lines 204-222: the three dataframes, then merge and format.
CriteoParsedJoin(usd, gbp, eur) ==
    CriteoJoin(CriteoCreateDataframes(usd, columns_usd),
               CriteoCreateDataframes(eur, columns_eur),
               CriteoCreateDataframes(gbp, columns_gbp))

(***************************************************************************)
(* The Source A normalizer applied to bounded inputs                       *)
(***************************************************************************)

Idle ==
    /\ error = "none"
    /\ exit_code = <<>>
    /\ printed = <<>>
    /\ sheet = <<>>
    /\ merged_df = Unset

InitCriteo ==
    /\ pc = "criteo_format"
    /\ Idle
    /\ stats_usd \in Reports(UsdLines)
    /\ stats_gbp \in Reports(GbpLines)
    /\ stats_eur \in Reports(EurLines)
    /\ df_merged = <<>>
    /\ criteo_df = Unset
    /\ usd_rate = <<>>
    /\ response = [status_code |-> 0, text |-> <<>>]
    /\ kelkoo_df = Unset

CriteoMergeAndFormat ==
    /\ pc = "criteo_format"
    /\ df_merged' = CriteoParsedJoin(stats_usd, stats_gbp, stats_eur)
    /\ criteo_df' = CriteoFormat(df_merged')
    /\ pc' = "criteo_formatted"
    /\ UNCHANGED <<error, exit_code, printed, stats_usd, stats_gbp, stats_eur,
                   usd_rate, response, kelkoo_df, merged_df, sheet>>

NextCriteo == CriteoMergeAndFormat

SpecCriteo == InitCriteo /\ [][NextCriteo]_vars

(***************************************************************************)
(* Source B (Kelkoo)                                                       *)
(***************************************************************************)

\* GBP -> USD rates (in hundredths) the rate service can answer with.
Rates == {127, 131}

\* Entries the Kelkoo category statistics can hold: one per category, day
\* and device type.
KelkooLines ==
    << [catId |-> 1, catName |-> "Shoes", date |-> "2024-01-01",
        deviceType |-> "Computer", clicks |-> 10, cost |-> 5000,
        currency |-> "GBP", sales |-> 1, orderValue |-> 0,
        trackedLeads |-> 0, costTrackedLeads |-> 0],
       [catId |-> 2, catName |-> "Bags", date |-> "2024-01-01",
        deviceType |-> "Desktop", clicks |-> 3, cost |-> 50,
        currency |-> "GBP", sales |-> 0, orderValue |-> 0,
        trackedLeads |-> 0, costTrackedLeads |-> 0],
       [catId |-> 1, catName |-> "Shoes", date |-> "2024-01-01",
        deviceType |-> "Mobile", clicks |-> 7, cost |-> 1,
        currency |-> "GBP", sales |-> 0, orderValue |-> 0,
        trackedLeads |-> 0, costTrackedLeads |-> 0],
       [catId |-> 2, catName |-> "Bags", date |-> "2024-01-01",
        deviceType |-> "Smartphone", clicks |-> 1, cost |-> 5,
        currency |-> "GBP", sales |-> 0, orderValue |-> 0,
        trackedLeads |-> 0, costTrackedLeads |-> 0],
       [catId |-> 1, catName |-> "Shoes", date |-> "2024-01-01",
        deviceType |-> "Tablet", clicks |-> 2, cost |-> 150,
        currency |-> "GBP", sales |-> 0, orderValue |-> 0,
        trackedLeads |-> 0, costTrackedLeads |-> 0],
       [catId |-> 1, catName |-> "Shoes", date |-> "2024-01-01",
        deviceType |-> "Watch", clicks |-> 4, cost |-> 33,
        currency |-> "GBP", sales |-> 0, orderValue |-> 0,
        trackedLeads |-> 0, costTrackedLeads |-> 0],
       [catId |-> 1, catName |-> "Shoes", date |-> "2024-01-02",
        deviceType |-> "Computer", clicks |-> 6, cost |-> 1234,
        currency |-> "GBP", sales |-> 0, orderValue |-> 0,
        trackedLeads |-> 0, costTrackedLeads |-> 0] >>

NoResponse == [status_code |-> 0, text |-> <<>>]

\* The empty-array test against a text that is never returned.
IsEmptyArrayMut(text) == text = <<"[]">>

\* The payload is the text '[]': an array with no entry.
IsEmptyArray(text) == text = <<>>

\* __kelkoo_create_dataframe: None on '[]', else the parsed entries (the
\* date column parsed and printed back as the same ISO string).
KelkooCreateDataframe(text) ==
    IF IsEmptyArray(text) THEN None
    ELSE DataFrame(<<>>, text)

KelkooDeviceMap ==
    [Computer |-> "desktop", Desktop |-> "desktop", Mobile |-> "mobile",
     Tablet |-> "tablet", CTV |-> "unknown", Other |-> "unknown",
     Smartphone |-> "mobile", Unknown |-> "unknown"]

KelkooFormatRow(r) ==
    LET renamed == Rename(r, [cost |-> "billingcost",
                              currency |-> "billingcurrency",
                              deviceType |-> "device"])
        dropped == Drop(renamed, {"catId", "catName", "sales", "orderValue",
                                  "trackedLeads", "costTrackedLeads"})
    IN  [dropped EXCEPT !.device = Replace(@, KelkooDeviceMap)]

KelkooGroupKey(r) == <<r.date, r.device>>

\* groupby([date, device]).agg(...), then reset_index().
KelkooGroupBy(rows) ==
    LET ks == SortedSeq({KelkooGroupKey(rows[i]) : i \in 1..Len(rows)})
        Agg(k) ==
            LET g == SelectSeq(rows, LAMBDA r : KelkooGroupKey(r) = k)
            IN  SetCell([date |-> k[1], device |-> k[2],
                         clicks |-> SumCol(g, "clicks"),
                         billingcost |-> SumCol(g, "billingcost")],
                        "billingcurrency", MaxCol(g, "billingcurrency"))
    IN  [n \in 1..Len(ks) |-> Agg(ks[n])]

\* The billing cost copied without applying the rate.
KelkooCostUsdMut(billingcost, rate) == billingcost * 100

\* billingcost (cents) * usd_rate (hundredths), in 1/100 cent.
KelkooCostUsd(billingcost, rate) == billingcost * rate

\* The columns left in groupby order, without the selection of line 322.
KelkooColumnsMut ==
    << "date", "device", "billingcurrency", "clicks", "billingcost",
       "impressions", "costusd" >> \o << "engine", "majormarket", "channel" >>

KelkooColumns ==
    << "date", "device", "impressions", "clicks", "billingcost",
       "billingcurrency", "costusd" >> \o << "engine", "majormarket", "channel" >>

\* impressions, costusd, column selection, rounding and the three stamps.
KelkooFinishRow(g, rate) ==
    LET costed == [impressions |-> 0,
                   costusd |-> KelkooCostUsd(g.billingcost, rate)] @@ g
        rounded == [costed EXCEPT !.billingcost = Round2(@, 1),
                                  !.costusd = Round2(@, 100)]
    IN  [engine |-> "Kelkoo", majormarket |-> "UK", channel |-> "Affiliate"]
        @@ rounded

\* __kelkoo_format_and_group_dataframe on the response text.
KelkooFormat(text, rate) ==
    LET kelkoo == KelkooCreateDataframe(text)
    IN  IF kelkoo = None THEN None
        ELSE LET grouped == KelkooGroupBy(
                     [i \in 1..Len(kelkoo.rows) |->
                         KelkooFormatRow(kelkoo.rows[i])])
             IN  DataFrame(KelkooColumns,
                           [i \in 1..Len(grouped) |->
                               KelkooFinishRow(grouped[i], rate)])

(***************************************************************************)
(* The Source B normalizer applied to bounded inputs                       *)
(***************************************************************************)

InitKelkoo ==
    /\ pc = "kelkoo_format"
    /\ Idle
    /\ stats_usd = <<>>
    /\ stats_gbp = <<>>
    /\ stats_eur = <<>>
    /\ df_merged = <<>>
    /\ criteo_df = Unset
    /\ usd_rate \in {<<x>> : x \in Rates}
    /\ response \in {[status_code |-> 200, text |-> t] :
                        t \in Reports(KelkooLines)}
    /\ kelkoo_df = Unset

KelkooFormatAndGroup ==
    /\ pc = "kelkoo_format"
    /\ kelkoo_df' = KelkooFormat(response.text, usd_rate[1])
    /\ pc' = "kelkoo_formatted"
    /\ UNCHANGED <<error, exit_code, printed, stats_usd, stats_gbp, stats_eur,
                   df_merged, criteo_df, usd_rate, response, merged_df, sheet>>

NextKelkoo == KelkooFormatAndGroup

SpecKelkoo == InitKelkoo /\ [][NextKelkoo]_vars

(***************************************************************************)
(* Merger and sink                                                         *)
(***************************************************************************)

\* The absence test with a wrong operand: it never holds.
NoDataMut(criteo, kelkoo) == criteo = None /\ kelkoo = Unset

\* Both dataframes are None (line 341).
NoData(criteo, kelkoo) == criteo = None /\ kelkoo = None

\* pd.concat([criteo, kelkoo]): the rows of the first, then of the second;
\* columns of the first, then those only the second has.
Concat(a, b) ==
    DataFrame(a.columns \o SelectSeq(b.columns,
                                     LAMBDA c : c \notin Range(a.columns)),
              a.rows \o b.rows)

\* The concatenation with its operands swapped.
MergeResultMut(criteo, kelkoo) ==
    IF criteo = None THEN kelkoo
    ELSE IF kelkoo = None THEN criteo
    ELSE Concat(kelkoo, criteo)

\* merge_dataframes once at least one side holds data (lines 344-348).
MergeResult(criteo, kelkoo) ==
    IF criteo = None THEN kelkoo
    ELSE IF kelkoo = None THEN criteo
    ELSE Concat(criteo, kelkoo)

\* One dataframe row as the list of its values in column order.
RowValues(r, cols) ==
    [i \in 1..Len(cols) |-> IF cols[i] \in DOMAIN r THEN r[cols[i]] ELSE "nan"]

\* [columns] + values of gsheet_upload.
SheetValues(df) ==
    <<df.columns>> \o [i \in 1..Len(df.rows) |-> RowValues(df.rows[i], df.columns)]

(***************************************************************************)
(* One run of sheet_upload                                                 *)
(***************************************************************************)

\* An uncaught exception: traceback on stderr, exit status 1.
Crash(e, msgs) ==
    /\ pc' = "exited"
    /\ error' = e
    /\ exit_code' = <<1>>
    /\ printed' = printed \o msgs \o <<"Traceback (most recent call last)">>

\* print(msg) followed by sys.exit() with no argument: exit status 0.
SysExit(e, msg) ==
    /\ pc' = "exited"
    /\ error' = e
    /\ exit_code' = <<0>>
    /\ printed' = Append(printed, msg)

Init ==
    /\ pc = "criteo_auth"
    /\ Idle
    /\ stats_usd = <<>>
    /\ stats_gbp = <<>>
    /\ stats_eur = <<>>
    /\ df_merged = <<>>
    /\ criteo_df = Unset
    /\ usd_rate = <<>>
    /\ response = NoResponse
    /\ kelkoo_df = Unset

CriteoGetAuth ==
    /\ pc = "criteo_auth"
    /\ \/ /\ pc' = "criteo_csv_usd"
          /\ UNCHANGED <<error, exit_code, printed>>
       \/ Crash("criteo_auth",
                <<"Auto Cost Uploader has failed - Criteo API connection error.">>)
    /\ UNCHANGED <<stats_usd, stats_gbp, stats_eur, df_merged, criteo_df,
                   usd_rate, response, kelkoo_df, merged_df, sheet>>

CriteoGetCsv ==
    /\ pc \in {"criteo_csv_usd", "criteo_csv_gbp", "criteo_csv_eur"}
    /\ \/ /\ pc = "criteo_csv_usd"
          /\ stats_usd' \in Reports(UsdLines)
          /\ pc' = "criteo_csv_gbp"
          /\ UNCHANGED <<stats_gbp, stats_eur, error, exit_code, printed>>
       \/ /\ pc = "criteo_csv_gbp"
          /\ stats_gbp' \in Reports(GbpLines)
          /\ pc' = "criteo_csv_eur"
          /\ UNCHANGED <<stats_usd, stats_eur, error, exit_code, printed>>
       \/ /\ pc = "criteo_csv_eur"
          /\ stats_eur' \in Reports(EurLines)
          /\ pc' = "criteo_build"
          /\ UNCHANGED <<stats_usd, stats_gbp, error, exit_code, printed>>
       \/ /\ Crash("transport", <<>>)
          /\ UNCHANGED <<stats_usd, stats_gbp, stats_eur>>
    /\ UNCHANGED <<df_merged, criteo_df, usd_rate, response, kelkoo_df,
                   merged_df, sheet>>

\* Lines 204-222; the reports and the join are locals that end here.
CriteoBuildFinalDataframe ==
    /\ pc = "criteo_build"
    /\ criteo_df' = CriteoFormat(CriteoParsedJoin(stats_usd, stats_gbp, stats_eur))
    /\ stats_usd' = <<>>
    /\ stats_gbp' = <<>>
    /\ stats_eur' = <<>>
    /\ pc' = "fixer"
    /\ UNCHANGED <<error, exit_code, printed, df_merged, usd_rate, response,
                   kelkoo_df, merged_df, sheet>>

FixerGetConversionRate ==
    /\ pc = "fixer"
    /\ \/ /\ usd_rate' \in {<<x>> : x \in Rates}
          /\ pc' = "kelkoo_get_json"
          /\ UNCHANGED <<error, exit_code, printed>>
       \/ /\ Crash("fixer", <<>>)
          /\ UNCHANGED usd_rate
    /\ UNCHANGED <<stats_usd, stats_gbp, stats_eur, df_merged, criteo_df,
                   response, kelkoo_df, merged_df, sheet>>

KelkooGetJson ==
    /\ pc = "kelkoo_get_json"
    /\ \/ /\ response' \in {[status_code |-> 200, text |-> t] :
                               t \in Reports(KelkooLines)}
          /\ pc' = "kelkoo_build"
          /\ UNCHANGED <<error, exit_code, printed>>
       \/ /\ response' = [status_code |-> 500, text |-> <<>>]
          /\ SysExit("kelkoo_status",
                     "Auto Cost Uploader has failed - Kelkoo API connection error")
       \/ /\ Crash("transport", <<>>)
          /\ UNCHANGED response
    /\ UNCHANGED <<stats_usd, stats_gbp, stats_eur, df_merged, criteo_df,
                   usd_rate, kelkoo_df, merged_df, sheet>>

\* Lines 333-336 with the response in hand; the response is a local.
KelkooBuildFinalDataframe ==
    /\ pc = "kelkoo_build"
    /\ kelkoo_df' = KelkooFormat(response.text, usd_rate[1])
    /\ response' = NoResponse
    /\ pc' = "merge"
    /\ UNCHANGED <<error, exit_code, printed, stats_usd, stats_gbp, stats_eur,
                   df_merged, criteo_df, usd_rate, merged_df, sheet>>

MergeDataframes ==
    /\ pc = "merge"
    /\ IF NoData(criteo_df, kelkoo_df)
       THEN /\ SysExit("no_data",
                       "Auto Cost Uploader has failed - no data provided.")
            /\ UNCHANGED merged_df
       ELSE /\ merged_df' = MergeResult(criteo_df, kelkoo_df)
            /\ pc' = "prep_sheet"
            /\ UNCHANGED <<error, exit_code, printed>>
    /\ UNCHANGED <<stats_usd, stats_gbp, stats_eur, df_merged, criteo_df,
                   usd_rate, response, kelkoo_df, sheet>>

PrepSheet ==
    /\ pc = "prep_sheet"
    /\ \/ /\ sheet' = Append(sheet, [call |-> "batch_clear",
                                     ranges |-> <<"A:J">>])
          /\ pc' = "gsheet_upload"
          /\ UNCHANGED <<error, exit_code, printed>>
       \/ /\ Crash("gsheet", <<>>)
          /\ UNCHANGED sheet
    /\ UNCHANGED <<stats_usd, stats_gbp, stats_eur, df_merged, criteo_df,
                   usd_rate, response, kelkoo_df, merged_df>>

GsheetUpload ==
    /\ pc = "gsheet_upload"
    /\ \/ /\ sheet' = Append(sheet, [call |-> "update",
                                     values |-> SheetValues(merged_df),
                                     value_input_option |-> "USER_ENTERED"])
          /\ pc' = "finish"
          /\ UNCHANGED <<error, exit_code, printed>>
       \/ /\ Crash("gsheet", <<>>)
          /\ UNCHANGED sheet
    /\ UNCHANGED <<stats_usd, stats_gbp, stats_eur, df_merged, criteo_df,
                   usd_rate, response, kelkoo_df, merged_df>>

Finish ==
    /\ pc = "finish"
    /\ printed' = Append(printed, "Finished - check sheet.")
    /\ exit_code' = <<0>>
    /\ pc' = "exited"
    /\ UNCHANGED <<error, stats_usd, stats_gbp, stats_eur, df_merged,
                   criteo_df, usd_rate, response, kelkoo_df, merged_df, sheet>>

Next ==
    \/ CriteoGetAuth
    \/ CriteoGetCsv
    \/ CriteoBuildFinalDataframe
    \/ FixerGetConversionRate
    \/ KelkooGetJson
    \/ KelkooBuildFinalDataframe
    \/ MergeDataframes
    \/ PrepSheet
    \/ GsheetUpload
    \/ Finish

Spec == Init /\ [][Next]_vars

(***************************************************************************)
(* Properties                                                              *)
(***************************************************************************)

\* C1: the sheet is cleared or written only after the Source A pipeline, the
\* FX fetch, the Source B pipeline and merge_dataframes all succeeded; a run
\* ended by a failure of one of those steps leaves the sheet untouched.
C1_NoSheetMutationBeforeMerge ==
    /\ sheet # <<>> =>
          /\ criteo_df.kind \in {"df", "None"}
          /\ usd_rate # <<>>
          /\ kelkoo_df.kind \in {"df", "None"}
          /\ merged_df.kind = "df"
          /\ error \in {"none", "gsheet"}
    /\ error \in {"criteo_auth", "transport", "fixer", "kelkoo_status", "no_data"}
          => sheet = <<>>

C1_Witness ==
    /\ pc = "gsheet_upload"
    /\ Len(sheet) = 1
    /\ merged_df.kind = "df"

\* C2: a run ended by a fatal error exits with a non-zero status and a
\* message; only a run that wrote the sheet exits with status 0 and the
\* confirmation message.
C2_FailedRunExitsNonZero ==
    pc = "exited" =>
        /\ error # "none" => (exit_code # <<0>> /\ printed # <<>>)
        /\ exit_code = <<0>> =>
              /\ Len(sheet) = 2
              /\ printed = <<"Finished - check sheet.">>

\* C3: merge_dataframes returns the present side unchanged when the other is
\* absent, fails without a table when both are absent, and otherwise returns
\* all rows of the Source A table followed by all rows of the Source B table.
C3_MergeAbsorbing ==
    (kelkoo_df.kind # "unset" /\ pc # "merge") =>
        /\ (criteo_df = None /\ kelkoo_df = None) =>
              (pc = "exited" /\ error = "no_data" /\ merged_df.kind = "unset")
        /\ (criteo_df = None /\ kelkoo_df # None) => merged_df = kelkoo_df
        /\ (criteo_df # None /\ kelkoo_df = None) => merged_df = criteo_df
        /\ (criteo_df # None /\ kelkoo_df # None) =>
              /\ merged_df.kind = "df"
              /\ Len(merged_df.rows) = Len(criteo_df.rows) + Len(kelkoo_df.rows)
              /\ \A i \in 1..Len(criteo_df.rows) :
                    merged_df.rows[i] = criteo_df.rows[i]
              /\ \A j \in 1..Len(kelkoo_df.rows) :
                    merged_df.rows[Len(criteo_df.rows) + j] = kelkoo_df.rows[j]

C3_Witness ==
    /\ pc = "prep_sheet"
    /\ criteo_df.kind = "df"
    /\ kelkoo_df.kind = "df"
    /\ Len(merged_df.rows) >= 3

\* C4: the device of every normalizer output row is one of desktop, tablet,
\* mobile, unknown, whatever the input label (unmapped labels become unknown).
C4_DeviceInTaxonomy ==
    /\ criteo_df.kind = "df" =>
          \A i \in 1..Len(criteo_df.rows) :
              criteo_df.rows[i].device \in {"desktop", "tablet", "mobile", "unknown"}
    /\ kelkoo_df.kind = "df" =>
          \A i \in 1..Len(kelkoo_df.rows) :
              kelkoo_df.rows[i].device \in {"desktop", "tablet", "mobile", "unknown"}

\* C5: every row of the three-way join takes billingcost and billingcurrency
\* from the GBP report if its (advertiser, day, device) has a GBP line, else
\* from the EUR report if it has an EUR line, else from the USD report; and
\* every key of any of the three reports is in the join.
C5_CoalescingPriority ==
    pc = "criteo_formatted" =>
        LET Costs(stats, k) ==
                {stats[i].AdvertiserCost :
                    i \in {j \in 1..Len(stats) :
                            /\ "Device" \in DOMAIN stats[j]
                            /\ <<stats[j].Advertiser, stats[j].Day,
                                 stats[j].Device>> = k}}
            Keys(stats) ==
                {<<stats[i].Advertiser, stats[i].Day, stats[i].Device>> :
                    i \in {j \in 1..Len(stats) : "Device" \in DOMAIN stats[j]}}
            KeyOf(r) == <<r.Advertiser, r.Day, r.Device>>
        IN  /\ \A i \in 1..Len(df_merged) :
                  LET r == df_merged[i]
                      k == KeyOf(r)
                  IN  IF Costs(stats_gbp, k) # {}
                      THEN /\ r.billingcost \in Costs(stats_gbp, k)
                           /\ r.billingcurrency = "GBP"
                      ELSE IF Costs(stats_eur, k) # {}
                      THEN /\ r.billingcost \in Costs(stats_eur, k)
                           /\ r.billingcurrency = "EUR"
                      ELSE /\ r.billingcost \in Costs(stats_usd, k)
                           /\ r.billingcost = r.costusd
                           /\ r.billingcurrency = "USD"
            /\ {KeyOf(df_merged[i]) : i \in 1..Len(df_merged)}
                  = Keys(stats_usd) \cup Keys(stats_gbp) \cup Keys(stats_eur)

C5_Witness ==
    /\ pc = "criteo_formatted"
    /\ \E i \in 1..Len(df_merged) :
          {"billingcost_gbp", "billingcost_eur", "costusd"} \subseteq DOMAIN df_merged[i]
    /\ \E i \in 1..Len(df_merged) :
          /\ "billingcost_eur" \in DOMAIN df_merged[i]
          /\ "billingcost_gbp" \notin DOMAIN df_merged[i]
    /\ \E i \in 1..Len(df_merged) :
          /\ "billingcost_gbp" \in DOMAIN df_merged[i]
          /\ "costusd" \notin DOMAIN df_merged[i]

\* C6: every output row's clicks and impressions (Source A) or clicks
\* (Source B) equal the sum over the parsed input lines of that source whose
\* mapped key is the row's group key; no line is counted twice or lost.
C6_SumPreserving ==
    /\ (pc = "criteo_formatted" /\ criteo_df.kind = "df") =>
          \A i \in 1..Len(criteo_df.rows) :
              LET o == criteo_df.rows[i]
                  g == SelectSeq(stats_usd, LAMBDA l :
                          /\ "Device" \in DOMAIN l
                          /\ l.Day = o.date
                          /\ Replace(l.Device, CriteoDeviceMap) = o.device
                          /\ Replace(l.Advertiser, CRITEO_MARKET_REPLACEMENTS)
                                = o.majormarket)
              IN  /\ o.clicks = SumCol(g, "Clicks")
                  /\ o.impressions = SumCol(g, "Displays")
    /\ (pc = "kelkoo_formatted" /\ kelkoo_df.kind = "df") =>
          \A i \in 1..Len(kelkoo_df.rows) :
              LET o == kelkoo_df.rows[i]
                  g == SelectSeq(response.text, LAMBDA l :
                          /\ l.date = o.date
                          /\ Replace(l.deviceType, KelkooDeviceMap) = o.device)
              IN  o.clicks = SumCol(g, "clicks")

\* C7: an empty Source B array and an empty Source A join each yield an
\* absent result without any error, and a run that then completes has
\* cleared the sheet and written exactly the other source's rows.
C7_EmptyResultNotError ==
    /\ [](/\ (pc = "exited" /\ error = "none" /\ criteo_df = None) =>
                /\ kelkoo_df.kind = "df"
                /\ Len(sheet) = 2
                /\ sheet[1].call = "batch_clear"
                /\ Tail(sheet[2].values) =
                      [i \in 1..Len(kelkoo_df.rows) |->
                          RowValues(kelkoo_df.rows[i], CanonicalColumns)]
          /\ (pc = "exited" /\ error = "none" /\ kelkoo_df = None) =>
                /\ criteo_df.kind = "df"
                /\ Len(sheet) = 2
                /\ sheet[1].call = "batch_clear"
                /\ Tail(sheet[2].values) =
                      [i \in 1..Len(criteo_df.rows) |->
                          RowValues(criteo_df.rows[i], CanonicalColumns)])
    /\ [][/\ (/\ pc = "kelkoo_build"
              /\ response.text = <<>>) =>
                 (kelkoo_df' = None /\ pc' = "merge" /\ error' = "none")
          /\ (/\ pc = "criteo_build"
              /\ \A l \in Range(stats_usd) \cup Range(stats_gbp)
                          \cup Range(stats_eur) : "Device" \notin DOMAIN l) =>
                 (criteo_df' = None /\ pc' = "fixer" /\ error' = "none")]_vars

C7_Witness ==
    /\ pc = "exited"
    /\ error = "none"
    /\ criteo_df = None
    /\ Len(sheet) = 2
    /\ Len(sheet[2].values) = 3

\* C8: a run makes at most one clear and one write, the clear of A:J first;
\* a run that ends normally made both, and the first written row is the ten
\* canonical column names in order whichever source is absent.
C8_SinkCallSequence ==
    /\ Len(sheet) <= 2
    /\ Len(sheet) >= 1 => sheet[1] = [call |-> "batch_clear", ranges |-> <<"A:J">>]
    /\ Len(sheet) = 2 =>
          /\ sheet[2].call = "update"
          /\ sheet[2].values[1] =
                << "date", "device", "impressions", "clicks", "billingcost",
                   "billingcurrency", "costusd", "engine", "majormarket",
                   "channel" >>
    /\ (pc = "exited" /\ error = "none") => Len(sheet) = 2

C8_Witness ==
    /\ pc = "exited"
    /\ error = "none"
    /\ kelkoo_df = None
    /\ Len(sheet) = 2

\* C9: no two Source A output rows share (date, device, majormarket, channel),
\* no two Source B output rows share (date, device), and in the merged table
\* a Source A row and a Source B row never agree on key and engine.
C9_UniqueKeys ==
    /\ criteo_df.kind = "df" =>
          \A i, j \in 1..Len(criteo_df.rows) :
              i # j =>
                 LET a == criteo_df.rows[i]
                     b == criteo_df.rows[j]
                 IN  <<a.date, a.device, a.majormarket, a.channel>>
                        # <<b.date, b.device, b.majormarket, b.channel>>
    /\ kelkoo_df.kind = "df" =>
          \A i, j \in 1..Len(kelkoo_df.rows) :
              i # j =>
                 <<kelkoo_df.rows[i].date, kelkoo_df.rows[i].device>>
                    # <<kelkoo_df.rows[j].date, kelkoo_df.rows[j].device>>
    /\ merged_df.kind = "df" =>
          \A i, j \in 1..Len(merged_df.rows) :
              i # j =>
                 LET a == merged_df.rows[i]
                     b == merged_df.rows[j]
                 IN  /\ <<a.date, a.device, a.majormarket, a.channel, a.engine>>
                           # <<b.date, b.device, b.majormarket, b.channel, b.engine>>
                     /\ (a.engine = "Criteo" /\ b.engine = "Kelkoo") =>
                           a.channel # b.channel

C9_Witness ==
    /\ merged_df.kind = "df"
    /\ \E i \in 1..Len(merged_df.rows) :
          /\ merged_df.rows[i].engine = "Criteo"
          /\ merged_df.rows[i].device = "unknown"
          /\ merged_df.rows[i].clicks = 2
    /\ \E i \in 1..Len(merged_df.rows) :
          /\ merged_df.rows[i].engine = "Kelkoo"
          /\ merged_df.rows[i].device = "mobile"
          /\ merged_df.rows[i].clicks = 8

\* C10: on every Source B output row costusd is the group's summed
\* billingcost times the run's FX rate rounded to the cent, converted once
\* after aggregation, and impressions is 0; rate 1.27 and one 50.00 line
\* give 63.50.
C10_KelkooUsdConversion ==
    (pc = "kelkoo_formatted" /\ kelkoo_df.kind = "df") =>
        /\ \A i \in 1..Len(kelkoo_df.rows) :
              LET o == kelkoo_df.rows[i]
                  g == SelectSeq(response.text, LAMBDA l :
                          /\ l.date = o.date
                          /\ Replace(l.deviceType, KelkooDeviceMap) = o.device)
                  exact == SumCol(g, "cost") * usd_rate[1]
              IN  /\ o.billingcost = SumCol(g, "cost")
                  /\ 100 * o.costusd - exact <= 50
                  /\ exact - 100 * o.costusd <= 50
                  /\ o.impressions = 0
        /\ (usd_rate = <<127>> /\ Len(response.text) = 1
               /\ response.text[1].cost = 5000) =>
              kelkoo_df.rows[1].costusd = 6350

C10_Witness ==
    /\ pc = "kelkoo_formatted"
    /\ usd_rate = <<127>>
    /\ \E i \in 1..Len(kelkoo_df.rows) :
          /\ kelkoo_df.rows[i].device = "desktop"
          /\ kelkoo_df.rows[i].clicks = 13
          /\ kelkoo_df.rows[i].billingcost = 5050
          /\ kelkoo_df.rows[i].costusd = 6414

====
